---- MODULE Spec2Model ----
(***************************************************************************)
(* Model of SemanticSearchDemo (src/app.py): one collection named          *)
(* "documents" kept in an external vector index, the handlers that add,    *)
(* query, clear and bulk-load it, and the UI wrappers around them.         *)
(*                                                                         *)
(* The vector index is an external collaborator.  It is modelled by what   *)
(* the handlers observe: an ordered list of (id, document, metadata)       *)
(* rows, a count, a nearest-neighbour query and the fact that every call   *)
(* on it may raise.                                                        *)
(***************************************************************************)
EXTENDS Integers, Sequences, FiniteSets, TLC

VARIABLES
    store,        \* rows of the collection "documents" inside the index
    collection,   \* self.collection: name, metric, and whether the handle is live
    jsonFile,     \* the content of data/sample_documents.json
    pc,           \* position of add_sample_data: "idle" or "batches"
    docs_to_add, metadatas_to_add, ids_to_add,   \* locals of add_sample_data
    batch_i,      \* loop variable i of the batch loop
    total_docs_successfully_processed,
    calls,        \* calls made on the index by the current / last handler
    warnings,     \* indices logged by logger.warning in the current / last bulk load
    request,      \* the current / last handler and its arguments
    count_before, \* collection.count() when that handler was called
    result        \* what the last handler returned (or that it raised)

vars == <<store, collection, jsonFile, pc, docs_to_add,
          metadatas_to_add, ids_to_add, batch_i,
          total_docs_successfully_processed, calls, warnings, request,
          count_before, result>>

bulkLocals == <<docs_to_add, metadatas_to_add, ids_to_add, batch_i,
                total_docs_successfully_processed>>

(***************************************************************************)
(* Bounds of the model.                                                    *)
(***************************************************************************)
MaxTexts   == 2    \* longest texts list handed to add_documents
MaxUuid    == 2    \* documents stored under a uuid4 id at one time
MaxSmall   == 2    \* entries of a small JSON file, every shape enumerated
MaxBatches == 2    \* batches of the largest JSON file
MaxK       == 2    \* largest n_results requested
MaxQuery   == 1    \* longest query string
MaxClears  == 1    \* clears served during one bulk load
MaxDim     == 2    \* longest embedding vector
MaxCands   == 2    \* most candidates handed to batch_similarity
MaxComp    == 4    \* largest component of an embedding, in steps
Scale      == 4    \* steps of the arithmetic in one unit
Huge       == 6    \* largest finite number of the arithmetic, in steps
MaxText    == 6    \* longest text handed to chunk_text
MaxChunk   == 5    \* largest chunk_size
MaxChunks  == 8    \* longest list of chunks a run of chunk_text is followed to

(***************************************************************************)
(* Program constants.                                                      *)
(***************************************************************************)
batch_size == 50
lookback   == 100
Unit       == 100  \* the 1 of "1 - distance", in hundredths

Min(a, b) == IF a <= b THEN a ELSE b
Max(a, b) == IF a >= b THEN a ELSE b

(***************************************************************************)
(* Python values.                                                          *)
(***************************************************************************)
None      == -1      \* what dict.get returns for an absent "text"
EmptyText == 0       \* the text ""; positive numbers are non-empty texts
FalsyOnlyNone(text) == text = None     \* variant: "text is None"
Falsy(text) == text = None \/ text = EmptyText           \* "not text"

Get(d, key, default) == IF key \in DOMAIN d THEN d[key] ELSE default

Whitespace == {" ", "\t"}

RECURSIVE LStrip(_)
LStrip(s) == IF s # <<>> /\ Head(s) \in Whitespace THEN LStrip(Tail(s)) ELSE s

RECURSIVE RStrip(_)
RStrip(s) == IF s # <<>> /\ s[Len(s)] \in Whitespace
             THEN RStrip(SubSeq(s, 1, Len(s) - 1)) ELSE s

\* variant: the query is tested without being stripped
stripNothing(s) == s

strip(s) == RStrip(LStrip(s))

\* docs[start_index:end_index] for 0 <= start_index <= end_index
Slice(s, start_index, end_index) ==
    SubSeq(s, start_index + 1, Min(end_index, Len(s)))

(***************************************************************************)
(* The vector index (chromadb collection).                                 *)
(***************************************************************************)
Ids(rows) == {rows[j].id : j \in 1..Len(rows)}

IndexCount(rows) == Len(rows)

\* rows of a batch, in order
Rows(ids, documents, metadatas) ==
    [j \in 1..Len(ids) |-> [id |-> ids[j], document |-> documents[j],
                            metadata |-> metadatas[j]]]

\* collection.add validates its arguments before it writes anything
AddRejects(ids, documents, metadatas) ==
    \/ Len(documents) # Len(ids)
    \/ Len(metadatas) # Len(ids)
    \/ \E a, b \in 1..Len(ids) : a # b /\ ids[a] = ids[b]

\* the index keeps its rows in the order of their ids ("doc_..." before
\* "json_doc_...", then by number); the order only decides ties of a query
IdBefore(a, b) ==
    \/ a.id[1] = "doc" /\ b.id[1] = "json_doc"
    \/ a.id[1] = b.id[1] /\ a.id[2] < b.id[2]

\* rows whose id is already stored are left as they are
KeepNew(batch, stored) == SelectSeq(batch, LAMBDA row : row.id \notin stored)

AppendNew(rows, batch) == SortSeq(rows \o KeepNew(batch, Ids(rows)), IdBefore)

IndexAdd(rows, ids, documents, metadatas) ==
    AppendNew(rows, Rows(ids, documents, metadatas))

\* cosine distance of a stored document to the query, in hundredths (0..2)
Distance(query, document) ==
    ((Len(query) * 37 + document * 61) % (2 * Unit + 1))

\* the closer of the rows at positions a and b (0: no row); the one stored
\* first wins a tie
Closer(rows, query, a, b) ==
    IF a = 0 THEN b
    ELSE IF b = 0 THEN a
    ELSE IF Distance(query, rows[b].document) < Distance(query, rows[a].document)
         THEN b ELSE a

\* position of the closest row in lo..hi that is not yet taken (0: none)
RECURSIVE Closest(_, _, _, _, _)
Closest(rows, query, taken, lo, hi) ==
    IF lo > hi THEN 0
    ELSE IF lo = hi THEN (IF lo \in taken THEN 0 ELSE lo)
    ELSE LET mid == (lo + hi) \div 2
         IN  Closer(rows, query, Closest(rows, query, taken, lo, mid),
                    Closest(rows, query, taken, mid + 1, hi))

\* positions of the n nearest rows, closest first
RECURSIVE Nearest(_, _, _, _)
Nearest(rows, query, taken, n) ==
    LET j == Closest(rows, query, taken, 1, Len(rows))
    IN  IF n <= 0 \/ j = 0 THEN <<>>
        ELSE <<j>> \o Nearest(rows, query, taken \cup {j}, n - 1)

\* collection.query(query_texts=[query], n_results=n): one inner list per query
IndexQuery(rows, query, n) ==
    LET order == Nearest(rows, query, {}, n)
    IN  [documents |-> <<[j \in 1..Len(order) |-> rows[order[j]].document]>>,
         distances |-> <<[j \in 1..Len(order) |->
                            Distance(query, rows[order[j]].document)]>>,
         metadatas |-> <<[j \in 1..Len(order) |-> rows[order[j]].metadata]>>]

QueryRejects(n) == n <= 0

(***************************************************************************)
(* Results of handlers.                                                    *)
(***************************************************************************)
NoMsg   == [kind |-> "none", n |-> 0, total |-> 0]
NoStats == [kind |-> "none", name |-> "", count |-> 0, raised |-> FALSE]

Returned(op, msg, documents, scores, metadatas, stats) ==
    [op |-> op, raised |-> FALSE, msg |-> msg, documents |-> documents,
     scores |-> scores, metadatas |-> metadatas, stats |-> stats]

Message(op, msg) == Returned(op, msg, <<>>, <<>>, <<>>, NoStats)

\* the handler op is left by an exception
Raise(op) ==
    [op |-> op, raised |-> TRUE, msg |-> NoMsg, documents |-> <<>>,
     scores |-> <<>>, metadatas |-> <<>>, stats |-> [NoStats EXCEPT !.raised = TRUE]]

\* variant: no except clause
TryNothing(body, handler) == body

\* try: body / except Exception: handler
Try(body, handler) == IF body.raised THEN handler ELSE body

\* a call of handler op with its arguments
Request(op, query, n_results, texts, metadatas) ==
    [op |-> op, query |-> query, n_results |-> n_results, texts |-> texts,
     metadatas |-> metadatas]

Call(op) == Request(op, <<>>, 0, <<>>, [given |-> FALSE, list |-> <<>>])

TheCollection == [name |-> "documents", metric |-> "cosine", live |-> TRUE]


(***************************************************************************)
(* data/sample_documents.json                                              *)
(***************************************************************************)
\* the shapes an entry of the "documents" array can have
FullEntry(i)   == [text |-> i + 1, category |-> "tecnologia",
                   topic |-> "ia", difficulty |-> "basico"]
BareEntry(i)   == [text |-> i + 1]
NoTextEntry(i) == [category |-> "tecnologia"]
EmptyEntry(i)  == [text |-> EmptyText, topic |-> "ia"]

\* the entry at index i: those in missing have no usable text (no "text" key
\* at even indices, the text "" at odd ones), the others are alternately
\* full and bare
EntryAt(i, missing) ==
    IF i \in missing
    THEN (IF i % 2 = 0 THEN NoTextEntry(i) ELSE EmptyEntry(i))
    ELSE (IF i % 2 = 0 THEN FullEntry(i) ELSE BareEntry(i))

Entries(n, missing) == [j \in 1..n |-> EntryAt(j - 1, missing)]

SmallEntries ==
    UNION {{Entries(n, missing) : missing \in SUBSET (0..(n - 1))}
           : n \in 0..MaxSmall}

\* three entries with a text and one without
ExampleEntries == Entries(4, {2})

LargeSizes == {(b - 1) * batch_size + 1 : b \in 2..MaxBatches}

File(kind, data) == [kind |-> kind, data |-> data]

\* files that cannot be read as an object with a "documents" array
UnreadableFiles ==
    {File("missing", [documents |-> <<>>]),       \* no such file
     File("invalid", [documents |-> <<>>]),       \* not JSON
     File("not_object", [documents |-> <<>>]),    \* JSON, but not an object
     File("object", [other |-> <<>>])}            \* no "documents" key

\* files whose documents fit in one batch
JsonFiles ==
    UnreadableFiles
    \cup {File("object", [documents |-> e]) : e \in SmallEntries \cup {ExampleEntries}}

\* files whose documents take several batches
LargeJsonFiles ==
    {File("object", [documents |-> Entries(n, m)]) : n \in LargeSizes, m \in {{}, {0}}}

(***************************************************************************)
(* get_collection_stats                                                    *)
(***************************************************************************)
StatsExcept == [kind |-> "error", name |-> "", count |-> 0, raised |-> FALSE]

\* variant: a count of 0 taken for a failure
get_collection_stats_zero_fails(rows, coll, countFails) ==
    Try(IF ~coll.live \/ countFails \/ IndexCount(rows) = 0
        THEN Raise("get_collection_stats").stats
        ELSE [kind |-> "stats", name |-> coll.name, count |-> IndexCount(rows),
              raised |-> FALSE],
        StatsExcept)

get_collection_stats(rows, coll, countFails) ==
    Try(IF ~coll.live \/ countFails THEN Raise("get_collection_stats").stats
        ELSE [kind |-> "stats", name |-> coll.name, count |-> IndexCount(rows),
              raised |-> FALSE],
        StatsExcept)

StatsCalls(countFails) == <<[fn |-> "count", n |-> 0, ok |-> ~countFails]>>

GetCollectionStats(countFails) ==
    /\ result' = Returned("get_collection_stats", NoMsg, <<>>, <<>>, <<>>,
                          get_collection_stats(store, collection, countFails))
    /\ calls' = StatsCalls(~collection.live \/ countFails)
    /\ warnings' = {}
    /\ request' = Call("get_collection_stats")
    /\ count_before' = IndexCount(store)
    /\ UNCHANGED <<store, collection, jsonFile, pc, bulkLocals>>

(***************************************************************************)
(* add_documents                                                           *)
(***************************************************************************)
NoMetadatas == [given |-> FALSE, list |-> <<>>]

\* variant: sources numbered from 1
DefaultMetadatasFromOne(n) == [i \in 1..n |-> [source |-> <<"document", i>>]]

\* [{"source": f"document_{i}"} for i in range(len(texts))]
DefaultMetadatas(n) == [i \in 1..n |-> [source |-> <<"document", i - 1>>]]

\* metadatas or [...]
MetadatasOr(metadatas, default) ==
    IF metadatas.given /\ metadatas.list # <<>> THEN metadatas.list ELSE default

\* variant: ids numbered from the position in texts, not drawn afresh
UuidsByIndex(from, n) == [j \in 1..n |-> <<"doc", j>>]

\* one f"doc_{uuid.uuid4().hex}" per text: n values that no stored row has,
\* written as the numbers that follow the from numbers in use
Uuids(from, n) == [j \in 1..n |-> <<"doc", from + j>>]

\* the number of rows stored under a uuid4 id
UuidsInUse(rows) == Cardinality({j \in 1..Len(rows) : rows[j].id[1] = "doc"})

AddDocumentsExcept ==
    Message("add_documents", [kind |-> "error", n |-> 0, total |-> 0])

AddDocumentsSuccess(n, count) ==
    Message("add_documents", [kind |-> "added", n |-> n, total |-> count])

\* the rows after collection.add of add_documents
AddDocumentsRows(rows, coll, from, texts, metadatas, addFails) ==
    LET ids   == Uuids(from, Len(texts))
        metas == MetadatasOr(metadatas, DefaultMetadatas(Len(texts)))
    IN  IF texts = <<>> \/ ~coll.live \/ addFails \/ AddRejects(ids, texts, metas)
        THEN rows
        ELSE IndexAdd(rows, ids, texts, metas)

\* variant: without the early return for no texts, the index is called with
\* empty lists and rejects them
add_documents_unguarded(rows, coll, from, texts, metadatas, addFails, countFails) ==
    LET ids       == Uuids(from, Len(texts))
        metas     == MetadatasOr(metadatas, DefaultMetadatas(Len(texts)))
        addRaises == ~coll.live \/ addFails \/ AddRejects(ids, texts, metas)
        after     == AddDocumentsRows(rows, coll, from, texts, metadatas, addFails)
    IN  Try(IF texts = <<>> \/ addRaises \/ countFails
            THEN Raise("add_documents")
            ELSE AddDocumentsSuccess(Len(texts), IndexCount(after)),
            AddDocumentsExcept)

add_documents(rows, coll, from, texts, metadatas, addFails, countFails) ==
    LET ids       == Uuids(from, Len(texts))
        metas     == MetadatasOr(metadatas, DefaultMetadatas(Len(texts)))
        addRaises == ~coll.live \/ addFails \/ AddRejects(ids, texts, metas)
        after     == AddDocumentsRows(rows, coll, from, texts, metadatas, addFails)
    IN  Try(IF texts = <<>>
            THEN Message("add_documents",
                         [kind |-> "no_documents", n |-> 0, total |-> 0])
            ELSE IF addRaises \/ countFails THEN Raise("add_documents")
            ELSE AddDocumentsSuccess(Len(texts), IndexCount(after)),
            AddDocumentsExcept)

AddDocumentsCalls(rows, coll, from, texts, metadatas, addFails, countFails) ==
    LET ids       == Uuids(from, Len(texts))
        metas     == MetadatasOr(metadatas, DefaultMetadatas(Len(texts)))
        addRaises == ~coll.live \/ addFails \/ AddRejects(ids, texts, metas)
    IN  IF texts = <<>> THEN <<>>
        ELSE <<[fn |-> "add", n |-> Len(texts), ok |-> ~addRaises]>>
             \o (IF addRaises THEN <<>>
                 ELSE <<[fn |-> "count", n |-> 0, ok |-> ~countFails]>>)

AddDocuments(from, texts, metadatas, addFails, countFails) ==
    /\ from + Len(texts) <= MaxUuid
    /\ store' = AddDocumentsRows(store, collection, from, texts, metadatas,
                                 addFails)
    /\ result' = add_documents(store, collection, from, texts, metadatas,
                               addFails, countFails)
    /\ calls' = AddDocumentsCalls(store, collection, from, texts, metadatas,
                                  addFails, countFails)
    /\ warnings' = {}
    /\ request' = Request("add_documents", <<>>, 0, texts, metadatas)
    /\ count_before' = IndexCount(store)
    /\ UNCHANGED <<collection, jsonFile, pc, bulkLocals>>

(***************************************************************************)
(* search_documents                                                        *)
(***************************************************************************)
Empties(op) == Returned(op, NoMsg, <<>>, <<>>, <<>>, NoStats)

SearchDocumentsExcept == Empties("search_documents")

\* variant: max where the code has min
RequestedMax(n_results, count) == Max(n_results, count)

\* n_results=min(n_results, self.collection.count())
Requested(n_results, count) == Min(n_results, count)

\* results[...][0] if results[...] else []
FirstOrEmpty(lists) == IF lists # <<>> THEN lists[1] ELSE <<>>

\* variant: the distances are converted before they are returned
DistancesAsSimilarity(results) ==
    [j \in 1..Len(FirstOrEmpty(results.distances)) |->
        Unit - FirstOrEmpty(results.distances)[j]]

\* distances = results['distances'][0] if results['distances'] else []
Distances(results) == FirstOrEmpty(results.distances)

\* "not query.strip()"
Blank(query) == strip(query) = <<>>

SearchCalls(rows, coll, query, n_results, countFails, queryFails) ==
    IF Blank(query) THEN <<>>
    ELSE IF ~coll.live \/ countFails
         THEN <<[fn |-> "count", n |-> 0, ok |-> FALSE]>>
         ELSE LET n == Requested(n_results, IndexCount(rows))
              IN  <<[fn |-> "count", n |-> 0, ok |-> TRUE],
                    [fn |-> "query", n |-> n,
                     ok |-> ~(queryFails \/ QueryRejects(n))]>>

search_documents(rows, coll, query, n_results, countFails, queryFails) ==
    Try(IF Blank(query) THEN Empties("search_documents")
        ELSE IF ~coll.live \/ countFails THEN Raise("search_documents")
        ELSE LET n == Requested(n_results, IndexCount(rows))
             IN  IF queryFails \/ QueryRejects(n) THEN Raise("search_documents")
                 ELSE LET results == IndexQuery(rows, query, n)
                      IN  Returned("search_documents", NoMsg,
                                   FirstOrEmpty(results.documents),
                                   Distances(results),
                                   FirstOrEmpty(results.metadatas), NoStats),
        SearchDocumentsExcept)

SearchDocuments(query, n_results, countFails, queryFails) ==
    /\ result' = search_documents(store, collection, query, n_results,
                                  countFails, queryFails)
    /\ calls' = SearchCalls(store, collection, query, n_results,
                            countFails, queryFails)
    /\ warnings' = {}
    /\ request' = Request("search_documents", query, n_results, <<>>, NoMetadatas)
    /\ count_before' = IndexCount(store)
    /\ UNCHANGED <<store, collection, jsonFile, pc, bulkLocals>>

(***************************************************************************)
(* clear_collection                                                        *)
(***************************************************************************)
ClearOutcome(rows, coll, kind, raised) ==
    [store |-> rows, collection |-> coll, raised |-> raised,
     msg |-> [kind |-> kind, n |-> 0, total |-> 0]]

\* the assignment to self.collection is not reached when a call raises
ClearExcept(rows, coll) == ClearOutcome(rows, coll, "error", FALSE)

\* variant: the collection is fetched again without being deleted
clear_collection_keeps(rows, coll, deleteFails, createFails) ==
    IF ~coll.live \/ deleteFails \/ createFails
    THEN ClearOutcome(rows, coll, "error", FALSE)
    ELSE ClearOutcome(rows, coll, "cleared", FALSE)

\* delete_collection("documents") then get_or_create_collection(...)
clear_collection(rows, coll, deleteFails, createFails) ==
    IF ~coll.live \/ deleteFails
    THEN Try(ClearOutcome(rows, coll, "none", TRUE), ClearExcept(rows, coll))
    ELSE IF createFails
    THEN Try(ClearOutcome(<<>>, [coll EXCEPT !.live = FALSE], "none", TRUE),
             ClearExcept(<<>>, [coll EXCEPT !.live = FALSE]))
    ELSE ClearOutcome(<<>>, [name |-> "documents", metric |-> "cosine",
                            live |-> TRUE], "cleared", FALSE)

\* the delete_collection entry carries the number of rows it dropped
ClearCalls(rows, coll, deleteFails, createFails) ==
    IF ~coll.live \/ deleteFails
    THEN <<[fn |-> "delete_collection", n |-> 0, ok |-> FALSE]>>
    ELSE <<[fn |-> "delete_collection", n |-> IndexCount(rows), ok |-> TRUE],
           [fn |-> "get_or_create_collection", n |-> 0, ok |-> ~createFails]>>

ClearCollection(deleteFails, createFails) ==
    /\ LET out == clear_collection(store, collection, deleteFails, createFails)
       IN  /\ store' = out.store
           /\ collection' = out.collection
           /\ result' = [Message("clear_collection", out.msg)
                            EXCEPT !.raised = out.raised]
    /\ calls' = ClearCalls(store, collection, deleteFails, createFails)
    /\ warnings' = {}
    /\ request' = Call("clear_collection")
    /\ count_before' = IndexCount(store)
    /\ UNCHANGED <<jsonFile, pc, bulkLocals>>

(***************************************************************************)
(* add_sample_data                                                         *)
(***************************************************************************)
BulkResult(kind, n, total, stats) ==
    Returned("add_sample_data", [kind |-> kind, n |-> n, total |-> total],
             <<>>, <<>>, <<>>, stats)

\* the metadata built for an entry that has a text
EntryMetadata(entry) ==
    [category   |-> Get(entry, "category", "desconocido"),
     topic      |-> Get(entry, "topic", "desconocido"),
     difficulty |-> Get(entry, "difficulty", "desconocido"),
     source     |-> <<"json_sample">>]

\* for i, entry in enumerate(sample_entries): the indices i that are kept
\* (those whose text is not falsy), in order
Kept(entries) ==
    LET HasText(i) == ~Falsy(Get(entries[i + 1], "text", None))
    IN  SelectSeq([j \in 1..Len(entries) |-> j - 1], HasText)

\* the indices for which logger.warning is called
Skipped(entries) ==
    {i \in 0..(Len(entries) - 1) : Falsy(Get(entries[i + 1], "text", None))}

\* the message of an early return: the file cannot be read, or holds nothing
EarlyReturn(file) ==
    IF file.kind # "object" THEN file.kind
    ELSE IF Get(file.data, "documents", <<>>) = <<>> THEN "no_documents"
    ELSE IF Kept(Get(file.data, "documents", <<>>)) = <<>>
         THEN "no_valid_documents"
    ELSE "none"

\* the three lists built from the entries kept, in the order of the file
DocsToAdd(entries, order) ==
    [k \in 1..Len(order) |-> entries[order[k] + 1].text]

MetadatasToAdd(entries, order) ==
    [k \in 1..Len(order) |-> EntryMetadata(entries[order[k] + 1])]

IdsToAdd(order) == [k \in 1..Len(order) |-> <<"json_doc", order[k]>>]

\* lines 129-183: read the file, build the three lists, enter the batch loop
AddSampleDataBegin(statsFails) ==
    /\ pc = "idle"
    /\ request' = Call("add_sample_data")
    /\ count_before' = IndexCount(store)
    /\ LET entries == Get(jsonFile.data, "documents", <<>>)
           order   == Kept(entries)
       IN  /\ warnings' = IF jsonFile.kind = "object" THEN Skipped(entries) ELSE {}
           /\ IF EarlyReturn(jsonFile) # "none"
              THEN /\ result' = BulkResult(EarlyReturn(jsonFile), 0, 0,
                                   get_collection_stats(store, collection,
                                                        statsFails))
                   /\ calls' = StatsCalls(~collection.live \/ statsFails)
                   /\ UNCHANGED <<pc, bulkLocals>>
              ELSE /\ docs_to_add' = DocsToAdd(entries, order)
                   /\ metadatas_to_add' = MetadatasToAdd(entries, order)
                   /\ ids_to_add' = IdsToAdd(order)
                   /\ batch_i' = 0
                   /\ total_docs_successfully_processed' = 0
                   /\ pc' = "batches"
                   /\ calls' = <<>>
                   /\ result' = BulkResult("running", 0, 0, NoStats)
                   /\ statsFails = FALSE
    /\ UNCHANGED <<store, collection, jsonFile>>

num_batches == (Len(docs_to_add) + batch_size - 1) \div batch_size

BatchOutcome(rows, processed, raised) ==
    [store |-> rows, processed |-> processed, raised |-> raised]

\* variant: the except clause raises again
BatchExceptRaises(rows, processed) == BatchOutcome(rows, processed, TRUE)

\* except Exception as e: logger.error(...), and the loop goes on
BatchExcept(rows, processed) == BatchOutcome(rows, processed, FALSE)

\* the try statement of one iteration of the batch loop
AddBatch(rows, coll, processed, batch_ids, batch_docs, batch_metadatas, addFails, countFails) ==
    IF ~coll.live \/ addFails \/ AddRejects(batch_ids, batch_docs, batch_metadatas)
    THEN Try(BatchOutcome(rows, processed, TRUE), BatchExcept(rows, processed))
    ELSE LET after == IndexAdd(rows, batch_ids, batch_docs, batch_metadatas)
         IN  IF countFails
             THEN Try(BatchOutcome(after, processed + Len(batch_docs), TRUE),
                      BatchExcept(after, processed + Len(batch_docs)))
             ELSE BatchOutcome(after, processed + Len(batch_docs), FALSE)

\* lines 185-202: one iteration of the batch loop
AddSampleDataBatch(addFails, countFails) ==
    /\ pc = "batches"
    /\ batch_i < num_batches
    /\ LET start_index     == batch_i * batch_size
           end_index       == start_index + batch_size
           batch_docs      == Slice(docs_to_add, start_index, end_index)
           batch_metadatas == Slice(metadatas_to_add, start_index, end_index)
           batch_ids       == Slice(ids_to_add, start_index, end_index)
           addRaises       == \/ ~collection.live
                              \/ addFails
                              \/ AddRejects(batch_ids, batch_docs, batch_metadatas)
           out == AddBatch(store, collection, total_docs_successfully_processed,
                           batch_ids, batch_docs, batch_metadatas,
                           addFails, countFails)
       IN  /\ store' = out.store
           /\ total_docs_successfully_processed' = out.processed
           /\ calls' = calls
                       \o <<[fn |-> "add", n |-> Len(batch_docs), ok |-> ~addRaises]>>
                       \o (IF addRaises THEN <<>>
                           ELSE <<[fn |-> "count", n |-> 0, ok |-> ~countFails]>>)
           /\ IF out.raised
              THEN /\ pc' = "idle"                 \* the exception leaves the loop
                   /\ result' = Raise("add_sample_data")
              ELSE UNCHANGED <<pc, result>>
    /\ batch_i' = batch_i + 1
    /\ UNCHANGED <<collection, jsonFile, docs_to_add,
                   metadatas_to_add, ids_to_add, warnings, request,
                   count_before>>

\* variant: the failure case is not told apart
SummaryKindNoFailure(processed, attempted) ==
    IF processed = attempted THEN "all" ELSE "partial"

\* lines 204-210: the if / elif chain that picks the summary message
SummaryKind(processed, attempted) ==
    IF processed = 0 /\ attempted > 0 THEN "failure"
    ELSE IF processed < attempted /\ processed > 0 THEN "partial"
    ELSE IF processed = attempted THEN "all"
    ELSE "plain"

\* lines 204-213: after the loop
AddSampleDataSummary(statsFails) ==
    /\ pc = "batches"
    /\ batch_i >= num_batches
    /\ result' = BulkResult(SummaryKind(total_docs_successfully_processed,
                                        Len(docs_to_add)),
                            total_docs_successfully_processed, Len(docs_to_add),
                            get_collection_stats(store, collection, statsFails))
    /\ calls' = calls \o StatsCalls(~collection.live \/ statsFails)
    /\ pc' = "idle"
    /\ docs_to_add' = <<>>
    /\ metadatas_to_add' = <<>>
    /\ ids_to_add' = <<>>
    /\ batch_i' = 0
    /\ total_docs_successfully_processed' = 0
    /\ UNCHANGED <<store, collection, jsonFile, warnings, request,
                   count_before>>

(***************************************************************************)
(* UI handlers                                                             *)
(***************************************************************************)
\* similarity = 1 - distance
Similarity(distance) == Unit - distance

search_interface(rows, coll, query, num_results, countFails, queryFails, statsFails) ==
    IF Blank(query)
    THEN Message("search_interface", [kind |-> "no_query", n |-> 0, total |-> 0])
    ELSE LET found == search_documents(rows, coll, query, num_results,
                                       countFails, queryFails)
         IN  IF found.raised THEN Raise("search_interface")
             ELSE IF found.documents = <<>>
             THEN Message("search_interface",
                          [kind |-> "no_results", n |-> 0, total |-> 0])
             ELSE Returned("search_interface",
                           [kind |-> "found", n |-> Len(found.documents),
                            total |-> 0],
                           found.documents,
                           [j \in 1..Min(Len(found.documents), Len(found.scores))
                                |-> Similarity(found.scores[j])],
                           found.metadatas,
                           get_collection_stats(rows, coll, statsFails))

SearchInterface(query, num_results, countFails, queryFails, statsFails) ==
    /\ pc = "idle"
    /\ result' = search_interface(store, collection, query, num_results,
                                  countFails, queryFails, statsFails)
    /\ calls' = SearchCalls(store, collection, query, num_results,
                            countFails, queryFails)
                \o (IF result'.msg.kind = "found"
                    THEN StatsCalls(~collection.live \/ statsFails) ELSE <<>>)
    /\ warnings' = {}
    /\ request' = Request("search_interface", query, num_results, <<>>, NoMetadatas)
    /\ count_before' = IndexCount(store)
    /\ UNCHANGED <<store, collection, jsonFile, pc, bulkLocals>>

ClearAllDocuments(deleteFails, createFails, statsFails) ==
    /\ pc = "idle"
    /\ LET out == clear_collection(store, collection, deleteFails, createFails)
       IN  /\ store' = out.store
           /\ collection' = out.collection
           /\ result' = [Returned("clear_all_documents", out.msg, <<>>, <<>>, <<>>,
                                  get_collection_stats(out.store, out.collection,
                                                       statsFails))
                            EXCEPT !.raised = out.raised]
           /\ calls' = ClearCalls(store, collection, deleteFails, createFails)
                       \o StatsCalls(~out.collection.live \/ statsFails)
    /\ warnings' = {}
    /\ request' = Call("clear_all_documents")
    /\ count_before' = IndexCount(store)
    /\ UNCHANGED <<jsonFile, pc, bulkLocals>>

(***************************************************************************)
(* Inputs                                                                  *)
(***************************************************************************)
\* n blanks
Blanks(n) == [j \in 1..n |-> " "]

\* the blank queries of at most MaxQuery characters, and the word "a"
Queries == {Blanks(n) : n \in 0..MaxQuery} \cup {<<"a">>}

Ks == (-1)..MaxK

\* the values of the slider num_results
SliderKs == 1..MaxK

TextLists == {[j \in 1..n |-> j] : n \in 0..MaxTexts}

UserMetadata == [category |-> "personalizado", topic |-> "general"]

\* n metadata records of a caller, told apart by their topic
UserMetadatas(n) == [j \in 1..n |-> [UserMetadata EXCEPT !.topic = j]]

\* no metadatas, an empty list, one per text, or one too many
MetadataChoices(texts) ==
    {NoMetadatas,
     [given |-> TRUE, list |-> <<>>],
     [given |-> TRUE, list |-> UserMetadatas(Len(texts))],
     [given |-> TRUE, list |-> UserMetadatas(Len(texts) + 1)]}

(***************************************************************************)
(* The program: handlers run one at a time                                 *)
(***************************************************************************)
\* the state after demo = SemanticSearchDemo(), with one of the files on disk
Constructed(files) ==
    /\ store = <<>>
    /\ collection = TheCollection
    /\ jsonFile \in files
    /\ pc = "idle"
    /\ docs_to_add = <<>>
    /\ metadatas_to_add = <<>>
    /\ ids_to_add = <<>>
    /\ batch_i = 0
    /\ total_docs_successfully_processed = 0
    /\ calls = <<>>
    /\ warnings = {}
    /\ request = Call("__init__")
    /\ count_before = 0
    /\ result = Message("__init__", NoMsg)

Init == Constructed(JsonFiles)

DoAddDocuments ==
    /\ pc = "idle"
    /\ LET from == UuidsInUse(store)
       IN  \E texts \in TextLists : \E metadatas \in MetadataChoices(texts) :
             \E addFails, countFails \in BOOLEAN :
                /\ ~(addFails /\ countFails)
                /\ texts = <<>> => ~(addFails \/ countFails)
                /\ AddDocuments(from, texts, metadatas, addFails, countFails)

DoSearchDocuments ==
    /\ pc = "idle"
    /\ \E query \in Queries, n_results \in Ks, countFails, queryFails \in BOOLEAN :
            /\ ~(countFails /\ queryFails)
            /\ Blank(query) => ~(countFails \/ queryFails)
            /\ SearchDocuments(query, n_results, countFails, queryFails)

DoGetCollectionStats ==
    /\ pc = "idle"
    /\ \E countFails \in BOOLEAN : GetCollectionStats(countFails)

DoClearCollection ==
    /\ pc = "idle"
    /\ \E deleteFails, createFails \in BOOLEAN :
            /\ ~(deleteFails /\ createFails)
            /\ ClearCollection(deleteFails, createFails)

DoAddSampleData ==
    \/ \E statsFails \in BOOLEAN : AddSampleDataBegin(statsFails)
    \/ \E addFails, countFails \in BOOLEAN : AddSampleDataBatch(addFails, countFails)
    \/ \E statsFails \in BOOLEAN : AddSampleDataSummary(statsFails)

DoSearchInterface ==
    \E query \in Queries, num_results \in SliderKs :
      \E countFails, queryFails, statsFails \in BOOLEAN :
            /\ ~(countFails /\ queryFails)
            /\ (countFails \/ queryFails) => ~statsFails
            /\ Blank(query) => ~(countFails \/ queryFails \/ statsFails)
            /\ SearchInterface(query, num_results, countFails, queryFails, statsFails)

DoClearAllDocuments ==
    \E deleteFails, createFails, statsFails \in BOOLEAN :
            /\ ~(deleteFails /\ createFails)
            /\ ClearAllDocuments(deleteFails, createFails, statsFails)

Next ==
    \/ DoAddDocuments
    \/ DoSearchDocuments
    \/ DoGetCollectionStats
    \/ DoClearCollection
    \/ DoAddSampleData
    \/ DoSearchInterface
    \/ DoClearAllDocuments

Spec == Init /\ [][Next]_vars

(***************************************************************************)
(* The bulk load of a file of several batches, between clears              *)
(***************************************************************************)
InitBulk == Constructed(LargeJsonFiles)

NextBulk ==
    \/ DoAddSampleData
    \/ DoClearCollection
    \/ DoGetCollectionStats

SpecBulk == InitBulk /\ [][NextBulk]_vars

(***************************************************************************)
(* Handlers run by different events at the same time.  No handler takes a  *)
(* lock and the events of the two buttons are served by different workers, *)
(* so the handler of clear_button can run between two iterations of the    *)
(* batch loop of add_sample_data.  Its calls on the index are appended to  *)
(* the log of the load in the order in which the index serves them; what   *)
(* it returns goes to the other session, so a failure of its closing count *)
(* alone is not told apart.                                                *)
(***************************************************************************)
\* the clears served so far during the load
IsClear(call) == call.fn = "delete_collection"
Clears(log) == Len(SelectSeq(log, IsClear))

ClearAllDocumentsDuringLoad(deleteFails, createFails) ==
    /\ pc = "batches"
    /\ Clears(calls) < MaxClears
    /\ LET out == clear_collection(store, collection, deleteFails, createFails)
       IN  /\ store' = out.store
           /\ collection' = out.collection
           /\ calls' = calls
                       \o ClearCalls(store, collection, deleteFails, createFails)
                       \o StatsCalls(~out.collection.live)
    /\ UNCHANGED <<jsonFile, pc, bulkLocals, warnings, request, count_before,
                   result>>

DoClearAllDocumentsDuringLoad ==
    \E deleteFails, createFails \in BOOLEAN :
        /\ ~(deleteFails /\ createFails)
        /\ ClearAllDocumentsDuringLoad(deleteFails, createFails)

InitConcurrent == Constructed(LargeJsonFiles)

NextConcurrent ==
    \/ DoAddSampleData
    \/ DoClearAllDocuments
    \/ DoClearAllDocumentsDuringLoad

SpecConcurrent == InitConcurrent /\ [][NextConcurrent]_vars


(***************************************************************************)
(* EmbeddingManager (src/utils/embeddings.py).                             *)
(*                                                                         *)
(* numpy's floating-point numbers, at a reduced width: a number is an      *)
(* integer count of steps of 1/Scale, every product, quotient and square   *)
(* root is rounded to the nearest step, a magnitude above Huge is inf, and *)
(* inf - inf, 0 * inf, inf / inf and 0 / 0 are nan.  No operation raises.  *)
(***************************************************************************)
One  == Scale
Inf  == Huge + 1
NaN  == Huge + 2

IsNaN(a)    == a = NaN
IsInf(a)    == a = Inf \/ a = -Inf
Abs(a)      == IF a < 0 THEN -a ELSE a
Sign(a)     == IF a < 0 THEN -1 ELSE IF a > 0 THEN 1 ELSE 0

\* num / den for den > 0, rounded to the nearest integer (halves to even)
Rnd(num, den) ==
    LET q == Abs(num) \div den
        r == Abs(num) % den
        up == 2 * r > den \/ (2 * r = den /\ q % 2 = 1)
    IN  Sign(num) * (IF up THEN q + 1 ELSE q)

\* a magnitude that does not fit becomes inf
Fin(a) == IF a > Huge THEN Inf ELSE IF a < -Huge THEN -Inf ELSE a

Add(a, b) ==
    IF IsNaN(a) \/ IsNaN(b) THEN NaN
    ELSE IF IsInf(a) /\ IsInf(b) THEN (IF a = b THEN a ELSE NaN)
    ELSE IF IsInf(a) THEN a
    ELSE IF IsInf(b) THEN b
    ELSE Fin(a + b)

Mul(a, b) ==
    IF IsNaN(a) \/ IsNaN(b) THEN NaN
    ELSE IF IsInf(a) \/ IsInf(b)
         THEN (IF a = 0 \/ b = 0 THEN NaN ELSE Sign(a) * Sign(b) * Inf)
    ELSE Fin(Rnd(a * b, Scale))

Div(a, b) ==
    IF IsNaN(a) \/ IsNaN(b) THEN NaN
    ELSE IF IsInf(a) THEN (IF IsInf(b) THEN NaN
                           ELSE IF b < 0 THEN -a ELSE a)
    ELSE IF IsInf(b) THEN 0
    ELSE IF b = 0 THEN (IF a = 0 THEN NaN ELSE Sign(a) * Inf)
    ELSE Fin(Sign(b) * Rnd(a * Scale, Abs(b)))

\* the nearest r with (r / Scale)^2 = a / Scale
Sqrt(a) ==
    IF IsNaN(a) \/ a < 0 THEN NaN
    ELSE IF IsInf(a) THEN Inf
    ELSE LET floor == CHOOSE r \in 0..(a * Scale + 1) :
                          r * r <= a * Scale /\ (r + 1) * (r + 1) > a * Scale
         IN  IF a * Scale - floor * floor > (floor + 1) * (floor + 1) - a * Scale
             THEN floor + 1 ELSE floor

\* a[1] + ... + a[n]
RECURSIVE SumTo(_, _)
SumTo(a, n) == IF n = 0 THEN 0 ELSE Add(SumTo(a, n - 1), a[n])

\* np.dot of two vectors; vectors of different lengths raise ValueError
DotRaises(u, v) == Len(u) # Len(v)
Dot(u, v) == SumTo([j \in 1..Len(u) |-> Mul(u[j], v[j])], Len(u))

\* np.linalg.norm of a vector: sqrt(dot(x, x))
Norm(v) == Sqrt(Dot(v, v))

\* what a method of EmbeddingManager returned
Value(op, value) == [op |-> op, raised |-> FALSE, value |-> value]

\* lines 136-152; the except clause returns 0.0
similarity(embedding1, embedding2) ==
    IF Norm(embedding1) = 0 \/ Norm(embedding2) = 0 THEN 0
    ELSE IF DotRaises(embedding1, embedding2) THEN 0
    ELSE Div(Dot(embedding1, embedding2), Mul(Norm(embedding1), Norm(embedding2)))

\* the components and the vectors handed to the methods
Components == (-MaxComp)..MaxComp
Vectors == UNION {[1..d -> Components] : d \in 1..MaxDim}

\* some vectors of dimension d: zero, too small for its square to be told
\* from zero, ordinary, and large
Const(d, c)   == [j \in 1..d |-> c]
Axis(d, k, c) == [j \in 1..d |-> IF j = k THEN c ELSE 0]
Pool(d) == {Const(d, 0), Axis(d, 1, 1), Const(d, 2), Axis(d, d, -MaxComp),
            Const(d, MaxComp)}

\* pairs of vectors: a vector with itself, and with the vectors of the pools
SimilarityRequests ==
    {[op |-> "similarity", embedding1 |-> u, embedding2 |-> v] :
        u \in Vectors, v \in Vectors \cap UNION {Pool(d) : d \in 1..MaxDim}}
    \cup {[op |-> "similarity", embedding1 |-> u, embedding2 |-> u] : u \in Vectors}

(***************************************************************************)
(* batch_similarity, lines 154-175, array operation by array operation     *)
(***************************************************************************)
\* np.zeros(n)
Zeros(n) == [i \in 1..n |-> 0]

\* vector / scalar
Scaled(vector, norm) == [j \in 1..Len(vector) |-> Div(vector[j], norm)]

\* np.linalg.norm(embeddings, axis=1)
RowNorms(embeddings) == [i \in 1..Len(embeddings) |-> Norm(embeddings[i])]

\* variant: zero norms are left as they are
KeepZeros(doc_norms) == doc_norms

\* doc_norms[doc_norms == 0] = 1
ReplaceZeros(doc_norms) ==
    [i \in 1..Len(doc_norms) |-> IF doc_norms[i] = 0 THEN One ELSE doc_norms[i]]

\* embeddings / doc_norms[:, np.newaxis]
DivideRows(embeddings, doc_norms) ==
    [i \in 1..Len(embeddings) |-> Scaled(embeddings[i], doc_norms[i])]

\* np.dot(matrix, vector); rows of another length than the vector raise
MatVecRaises(matrix, vector) ==
    \E i \in 1..Len(matrix) : DotRaises(matrix[i], vector)
MatVec(matrix, vector) == [i \in 1..Len(matrix) |-> Dot(matrix[i], vector)]

\* the except clause returns np.zeros(len(embeddings))
batch_similarity(query_embedding, embeddings) ==
    IF Norm(query_embedding) = 0 THEN Zeros(Len(embeddings))
    ELSE IF MatVecRaises(embeddings, query_embedding) THEN Zeros(Len(embeddings))
    ELSE MatVec(DivideRows(embeddings, ReplaceZeros(RowNorms(embeddings))),
                Scaled(query_embedding, Norm(query_embedding)))

\* the lists of at most MaxCands vectors of a pool
Candidates(d) == UNION {[1..n -> Pool(d)] : n \in 0..MaxCands}

BatchRequests ==
    UNION {{[op |-> "batch_similarity", query_embedding |-> q, embeddings |-> c] :
               q \in Pool(d), c \in Candidates(d)}
           : d \in 1..MaxDim}

\* a method has been called and has not returned yet
Pending == [op |-> "none", raised |-> FALSE, value |-> 0]

\* the state in which a method of a constructed EmbeddingManager is called;
\* the collection of the demo plays no part
Called(requests) ==
    /\ store = <<>>
    /\ collection = TheCollection
    /\ jsonFile = File("missing", [documents |-> <<>>])
    /\ pc = "called"
    /\ docs_to_add = <<>>
    /\ metadatas_to_add = <<>>
    /\ ids_to_add = <<>>
    /\ batch_i = 0
    /\ total_docs_successfully_processed = 0
    /\ calls = <<>>
    /\ warnings = {}
    /\ request \in requests
    /\ count_before = 0
    /\ result = Pending

\* the method returns value (or raises), having made the calls of log
Returns(value, log) ==
    /\ pc = "called"
    /\ pc' = "returned"
    /\ result' = value
    /\ calls' = log
    /\ UNCHANGED <<store, collection, jsonFile, bulkLocals, warnings, request,
                   count_before>>

DoSimilarity ==
    /\ request.op = "similarity"
    /\ Returns(Value("similarity",
                     similarity(request.embedding1, request.embedding2)), <<>>)

(***************************************************************************)
(* encode, lines 84-117.  The provider is an external collaborator: it     *)
(* embeds a text as Embed(text), and any call on it may raise.  failAt is  *)
(* the call that raises (0: none does).                                    *)
(***************************************************************************)
Providers == {"sentence_transformers", "openai"}

Embed(text) == <<text, One>>

Raised(op) == [op |-> op, raised |-> TRUE, value |-> <<>>]

Outcome(value, log) == [value |-> value, calls |-> log]

\* self.model.encode(texts, convert_to_numpy=True): one call for all texts
EncodeSentenceTransformers(texts, failAt) ==
    IF failAt = 1
    THEN Outcome(Raised("encode"),
                 <<[fn |-> "model.encode", n |-> Len(texts), ok |-> FALSE]>>)
    ELSE Outcome(Value("encode", [i \in 1..Len(texts) |-> Embed(texts[i])]),
                 <<[fn |-> "model.encode", n |-> Len(texts), ok |-> TRUE]>>)

\* the calls of _encode_openai: openai.OpenAI(), then embeddings.create for
\* one text after the other (n is the text), up to the call that raises
OpenAICalls(texts, failAt) ==
    [k \in 1..(IF failAt = 0 THEN Len(texts) + 1 ELSE failAt) |->
        IF k = 1 THEN [fn |-> "openai.OpenAI", n |-> 0, ok |-> failAt # 1]
        ELSE [fn |-> "embeddings.create", n |-> texts[k - 1], ok |-> failAt # k]]

\* lines 100-117; the except clause logs and raises again
EncodeOpenAI(texts, failAt) ==
    IF failAt # 0
    THEN Outcome(Raised("encode"), OpenAICalls(texts, failAt))
    ELSE Outcome(Value("encode", [i \in 1..Len(texts) |-> Embed(texts[i])]),
                 OpenAICalls(texts, failAt))

\* variant: the except clause returns an empty array
encode_swallows(provider, texts, failAt) ==
    IF texts = <<>> THEN Outcome(Value("encode", <<>>), <<>>)
    ELSE LET out == IF provider = "sentence_transformers"
                    THEN EncodeSentenceTransformers(texts, failAt)
                    ELSE EncodeOpenAI(texts, failAt)
         IN  IF out.value.raised THEN Outcome(Value("encode", <<>>), out.calls)
             ELSE out

\* lines 84-98; the except clause logs and raises again
encode(provider, texts, failAt) ==
    IF texts = <<>> THEN Outcome(Value("encode", <<>>), <<>>)
    ELSE IF provider = "sentence_transformers"
    THEN EncodeSentenceTransformers(texts, failAt)
    ELSE EncodeOpenAI(texts, failAt)

\* the calls encode can make on the provider
ProviderCalls(provider, texts) ==
    IF texts = <<>> THEN 0
    ELSE IF provider = "sentence_transformers" THEN 1
    ELSE Len(texts) + 1

EncodeTexts == UNION {[1..n -> 1..MaxTexts] : n \in 0..MaxTexts}

EncodeRequests ==
    {[op |-> "encode", provider |-> p, texts |-> t] :
        p \in Providers, t \in EncodeTexts}

DoEncode ==
    /\ request.op = "encode"
    /\ \E failAt \in 0..ProviderCalls(request.provider, request.texts) :
          LET out == encode(request.provider, request.texts, failAt)
          IN  Returns(out.value, out.calls)

DoBatchSimilarity ==
    /\ request.op = "batch_similarity"
    /\ Returns(Value("batch_similarity",
                     batch_similarity(request.query_embedding, request.embeddings)),
               <<>>)

InitEmbeddings == Called(SimilarityRequests \cup BatchRequests \cup EncodeRequests)

NextEmbeddings ==
    \/ DoSimilarity
    \/ DoBatchSimilarity
    \/ DoEncode

SpecEmbeddings == InitEmbeddings /\ [][NextEmbeddings]_vars

(***************************************************************************)
(* chunk_text (src/utils/document_processor.py, lines 246-273).  While the *)
(* loop runs, result holds the locals chunks (as value) and start.         *)
(***************************************************************************)
SentenceEnd == {".", "!", "?"}

\* s[a:b], with Python's reading of negative and too large indices
PyIndex(n, a) == IF a < 0 THEN Max(a + n, 0) ELSE Min(a, n)
PySlice(s, a, b) == SubSeq(s, PyIndex(Len(s), a) + 1, PyIndex(Len(s), b))

\* s[i]: IndexError when i is not in -len(s) .. len(s) - 1
CharRaises(s, i) == i >= Len(s) \/ i < -Len(s)
Char(s, i) == s[(IF i < 0 THEN i + Len(s) ELSE i) + 1]

\* the values of i in range(end, max(start + chunk_size // 2, end - 100), -1)
Lookback(start, chunk_size) ==
    (Max(start + chunk_size \div 2, start + chunk_size - lookback) + 1)
        ..(start + chunk_size)

\* the values of i at which the for loop finds a sentence ending
Endings(text, start, chunk_size) ==
    {i \in Lookback(start, chunk_size) :
        ~CharRaises(text, i) /\ Char(text, i) \in SentenceEnd}

\* end, after the search for a sentence ending at or before position end
ChunkEnd(text, start, chunk_size) ==
    LET end == start + chunk_size
        found == Endings(text, start, chunk_size)
    IN  IF end < Len(text) /\ found # {}
        THEN (CHOOSE i \in found : \A k \in found : k <= i) + 1
        ELSE end

\* the locals of the loop
Frame(chunks, start) ==
    [op |-> "chunk_text", raised |-> FALSE, value |-> chunks, start |-> start]

\* lines 248-252
ChunkTextBegin ==
    /\ pc = "called"
    /\ request.op = "chunk_text"
    /\ IF Len(request.text) <= request.chunk_size
       THEN pc' = "returned" /\ result' = Frame(<<request.text>>, 0)
       ELSE pc' = "loop" /\ result' = Frame(<<>>, 0)
    /\ UNCHANGED <<store, collection, jsonFile, bulkLocals, calls, warnings,
                   request, count_before>>

\* lines 254-271: one iteration of the while loop
ChunkTextIteration ==
    /\ pc = "loop"
    /\ Len(result.value) < MaxChunks
    /\ LET text  == request.text
           start == result.start
           end   == ChunkEnd(text, start, request.chunk_size)
           chunk == strip(PySlice(text, start, end))
           chunks == IF chunk # <<>> THEN Append(result.value, chunk)
                     ELSE result.value
       IN  /\ result' = Frame(chunks, end - request.overlap)
           /\ pc' = IF end - request.overlap >= Len(text) THEN "returned"
                    ELSE "loop"
    /\ UNCHANGED <<store, collection, jsonFile, bulkLocals, calls, warnings,
                   request, count_before>>

Alphabet == {"a", ".", " "}

Texts == UNION {[1..n -> Alphabet] : n \in 0..MaxText}

\* the calls with 0 <= overlap < chunk_size
ChunkRequests ==
    {r \in [op : {"chunk_text"}, text : Texts, chunk_size : 1..MaxChunk,
            overlap : 0..(MaxChunk - 1)] : r.overlap < r.chunk_size}

InitChunks == Called(ChunkRequests)

NextChunks ==
    \/ ChunkTextBegin
    \/ ChunkTextIteration

SpecChunks == InitChunks /\ [][NextChunks]_vars

(***************************************************************************)
(* Properties                                                              *)
(***************************************************************************)
OnlyWhitespace(query) == \A j \in 1..Len(query) : query[j] \in Whitespace

\* the calls of collection.add in a call log
IsAdd(call) == call.fn = "add"
Adds(log) == SelectSeq(log, IsAdd)

AllOk(log) == \A j \in 1..Len(log) : log[j].ok

\* the indices of the entries of the file that have a non-empty text
FileEntries == IF jsonFile.kind = "object" /\ "documents" \in DOMAIN jsonFile.data
               THEN jsonFile.data.documents ELSE <<>>

ValidIndices == {i \in 0..(Len(FileEntries) - 1) :
                    /\ "text" \in DOMAIN FileEntries[i + 1]
                    /\ FileEntries[i + 1].text > 0}

Valid == Cardinality(ValidIndices)

\* the loop of add_sample_data was entered and the call is over
BulkDone == request.op = "add_sample_data" /\ pc = "idle" /\ Valid > 0

\* C1: an add_documents(texts) that returns its success message leaves the
\* count len(texts) higher than before the call, and the message reports
\* len(texts) as added and the new count as the total.
C1_AddRaisesCount ==
    (request.op = "add_documents" /\ result.msg.kind = "added") =>
        /\ request.texts # <<>>
        /\ IndexCount(store) = count_before + Len(request.texts)
        /\ result.msg.n = Len(request.texts)
        /\ result.msg.total = IndexCount(store)

C1_Witness ==
    /\ request.op = "add_documents"
    /\ result.msg.kind = "added"
    /\ Len(request.texts) = 2
    /\ count_before >= 1
    /\ IndexCount(store) = count_before + 2

SameLengths ==
    /\ Len(result.documents) = Len(result.scores)
    /\ Len(result.documents) = Len(result.metadatas)

\* C2 as stated: for every non-blank query and every k the three sequences
\* of search_documents have the same length, at most k and at most the
\* document count.
C2_Original ==
    (request.op = "search_documents" /\ ~OnlyWhitespace(request.query)) =>
        /\ SameLengths
        /\ Len(result.documents) <= request.n_results
        /\ Len(result.documents) <= count_before

\* C2: for every non-blank query and every k the three sequences of
\* search_documents have the same length, at most max(k, 0) and at most the
\* document count (for k < 0 they are empty).
C2_ResultLengths ==
    (request.op = "search_documents" /\ ~OnlyWhitespace(request.query)) =>
        /\ SameLengths
        /\ Len(result.documents) <= Max(request.n_results, 0)
        /\ Len(result.documents) <= count_before

C2_Witness ==
    /\ request.op = "search_documents"
    /\ ~OnlyWhitespace(request.query)
    /\ count_before >= 1
    /\ request.n_results > count_before
    /\ Len(result.documents) = count_before
    /\ SameLengths

\* C3 as stated: with a non-empty collection, the number of neighbours
\* search_documents asks the index for is max(1, min(k, count)).
C3_Original ==
    (request.op = "search_documents" /\ count_before >= 1) =>
        \A j \in 1..Len(calls) :
            calls[j].fn = "query" =>
                calls[j].n = Max(1, Min(request.n_results, count_before))

\* C4: for a query that is empty or only whitespace, search_documents
\* returns three empty sequences, makes no call on the index and leaves the
\* collection as it was, whatever k is.
C4_BlankQueryNoOp ==
    [][(request'.op = "search_documents" /\ OnlyWhitespace(request'.query)) =>
          /\ ~result'.raised
          /\ result'.documents = <<>>
          /\ result'.scores = <<>>
          /\ result'.metadatas = <<>>
          /\ calls' = <<>>
          /\ store' = store
          /\ collection' = collection]_vars

C4_Witness ==
    /\ request.op = "search_documents"
    /\ request.query = <<" ">>
    /\ request.n_results = 2
    /\ IndexCount(store) >= 2
    /\ calls = <<>>
    /\ result.documents = <<>>

\* C5 as stated: the score search_documents returns for a neighbour at
\* distance d is 1 - d.
C5_Original ==
    request.op = "search_documents" =>
        \A j \in 1..Len(result.scores) :
            result.scores[j]
                = Unit - Distance(request.query, result.documents[j])

\* C5: search_documents returns the distance d of each neighbour unchanged,
\* closest first; search_interface, which calls it, reports 1 - d for the
\* result in the same position.
C5_DistancesReturned ==
    /\ (request.op = "search_documents" /\ ~result.raised) =>
          /\ Len(result.scores) = Len(result.documents)
          /\ \A j \in 1..Len(result.scores) :
                /\ result.scores[j]
                       = Distance(request.query, result.documents[j])
                /\ j > 1 => result.scores[j - 1] <= result.scores[j]
    /\ (request.op = "search_interface" /\ ~result.raised) =>
          /\ Len(result.scores) = Len(result.documents)
          /\ \A j \in 1..Len(result.scores) :
                result.scores[j]
                    = Unit - Distance(request.query, result.documents[j])

C5_Witness ==
    /\ request.op = "search_documents"
    /\ Len(result.scores) = 2
    /\ result.scores[1] < result.scores[2]
    /\ result.scores[1] # Unit - result.scores[1]

\* C6: when clear_collection has returned its success message, a
\* get_collection_stats that follows it (as a call of its own, or inside
\* clear_all_documents) and reads the count reports 0 documents and the
\* name "documents"; the collection has the cosine metric.
C6_ClearThenStats ==
    [][/\ ( /\ request.op = "clear_collection"
            /\ result.msg.kind = "cleared"
            /\ request'.op = "get_collection_stats"
            /\ result'.stats.kind = "stats" ) =>
               /\ result'.stats.count = 0
               /\ result'.stats.name = "documents"
               /\ collection'.metric = "cosine"
       /\ ( /\ request'.op = "clear_all_documents"
            /\ result'.msg.kind = "cleared"
            /\ result'.stats.kind = "stats" ) =>
               /\ result'.stats.count = 0
               /\ result'.stats.name = "documents"
               /\ collection'.metric = "cosine"]_vars

C6_Witness ==
    /\ request.op = "clear_all_documents"
    /\ result.msg.kind = "cleared"
    /\ calls[1].fn = "delete_collection"
    /\ calls[1].n >= 2
    /\ result.stats.kind = "stats"
    /\ result.stats.count = 0

\* size of the j-th chunk of total documents
ChunkSize(j, total) == Min(batch_size, total - (j - 1) * batch_size)

ChunksInOrder(adds) ==
    \A j \in 1..Len(adds) : adds[j].n = ChunkSize(j, Valid) /\ adds[j].n >= 1

\* C7: the valid documents are split into consecutive chunks of batch_size
\* and every chunk is attempted exactly once, in order; when the insertion of
\* a chunk fails the later chunks are still attempted, and the documents of
\* every chunk whose insertion did not fail are in the collection.
C7_EveryChunkAttempted ==
    /\ pc = "batches" =>
          /\ Len(Adds(calls)) = batch_i
          /\ ChunksInOrder(Adds(calls))
          /\ \A j \in 1..batch_i :
                Adds(calls)[j].ok =>
                    \A k \in ((j - 1) * batch_size + 1)
                             ..Min(j * batch_size, Len(ids_to_add)) :
                        ids_to_add[k] \in Ids(store)
    /\ BulkDone =>
          /\ Len(Adds(calls)) = (Valid + batch_size - 1) \div batch_size
          /\ ChunksInOrder(Adds(calls))

C7_Witness ==
    /\ pc = "batches"
    /\ batch_i = 2
    /\ ~Adds(calls)[1].ok
    /\ Adds(calls)[2].ok
    /\ ids_to_add[Len(ids_to_add)] \in Ids(store)

\* the documents of the chunks whose insertion did not fail
RECURSIVE Succeeded(_)
Succeeded(adds) ==
    IF adds = <<>> THEN 0
    ELSE (IF Head(adds).ok THEN Head(adds).n ELSE 0) + Succeeded(Tail(adds))

\* C8: when the bulk load has run its chunk loop, its message is the
\* full-success one iff succeeded = attempted, the partial one (with
\* succeeded / attempted) iff 0 < succeeded < attempted, and the failure one
\* iff succeeded = 0.
C8_SummaryKinds ==
    BulkDone =>
        LET succeeded == Succeeded(Adds(calls))
            attempted == Valid
            kind      == result.msg.kind
        IN  /\ kind \in {"all", "partial", "failure"}
            /\ kind = "all" <=> succeeded = attempted
            /\ kind = "partial" <=> (0 < succeeded /\ succeeded < attempted)
            /\ kind = "failure" <=> succeeded = 0
            /\ kind = "partial" =>
                  result.msg.n = succeeded /\ result.msg.total = attempted

C8_Witness ==
    /\ BulkDone
    /\ result.msg.kind = "partial"
    /\ result.msg.n = batch_size
    /\ result.msg.total = batch_size + 1

Default(entry, key) ==
    IF key \in DOMAIN entry THEN entry[key] ELSE "desconocido"

StoredAsEntry(i) ==
    \E j \in 1..Len(store) :
        /\ store[j].id = <<"json_doc", i>>
        /\ store[j].document = FileEntries[i + 1].text
        /\ store[j].metadata.category = Default(FileEntries[i + 1], "category")
        /\ store[j].metadata.topic = Default(FileEntries[i + 1], "topic")
        /\ store[j].metadata.difficulty = Default(FileEntries[i + 1], "difficulty")

\* C9: on a collection that is empty when the bulk load is called, with no
\* failing index call, the entries without a text or with an empty text are
\* skipped with a warning and nothing fails: the collection then holds as
\* many documents as there are entries with a non-empty text, each under
\* json_doc_i with its text and with category, topic and difficulty
\* defaulted when absent.
C9_SkipsEntriesWithoutText ==
    ( /\ request.op = "add_sample_data"
      /\ pc = "idle"
      /\ jsonFile.kind = "object"
      /\ count_before = 0
      /\ collection.live
      /\ AllOk(calls) ) =>
        /\ ~result.raised
        /\ IndexCount(store) = Valid
        /\ warnings = (0..(Len(FileEntries) - 1)) \ ValidIndices
        /\ Valid > 0 => (result.msg.kind = "all" /\ result.msg.n = Valid)
        /\ \A i \in ValidIndices : StoredAsEntry(i)

C9_Witness ==
    /\ request.op = "add_sample_data"
    /\ pc = "idle"
    /\ FileEntries = ExampleEntries
    /\ count_before = 0
    /\ AllOk(calls)
    /\ result.msg.kind = "all"
    /\ IndexCount(store) = 3
    /\ warnings = {2}

\* C10: no handler is left by an exception: whatever call on the index
\* fails, add_documents, search_documents, clear_collection,
\* get_collection_stats and add_sample_data return a value.
C10_NothingRaised ==
    /\ ~result.raised
    /\ ~result.stats.raised
    /\ (request.op = "search_documents" /\ ~AllOk(calls)) =>
          (result.documents = <<>> /\ result.scores = <<>>
           /\ result.metadatas = <<>>)

C10_Witness ==
    /\ request.op = "add_sample_data"
    /\ pc = "idle"
    /\ Len(Adds(calls)) = 1
    /\ ~Adds(calls)[1].ok
    /\ ~calls[Len(calls)].ok
    /\ result.msg.kind = "failure"
    /\ result.stats.kind = "error"
    /\ ~result.raised

(***************************************************************************)
(* C11: after add_documents has added its texts, the text at position i    *)
(* (from 0) is stored under the i-th id drawn, with a metadata record:     *)
(* [source |-> document_i] when metadatas was omitted (or empty), and      *)
(* metadatas[i] when metadatas was supplied.                               *)
(***************************************************************************)
Added == request.op = "add_documents" /\ result.msg.kind = "added"

\* the row stored for position i (from 1) of the texts of the last add
RowOf(i) ==
    LET from == UuidsInUse(store) - Len(request.texts)
    IN  CHOOSE row \in {store[j] : j \in 1..Len(store)} : row.id = <<"doc", from + i>>

C11_StoredMetadata ==
    Added =>
        \A i \in 1..Len(request.texts) :
            /\ \E j \in 1..Len(store) :
                  store[j].id = <<"doc", UuidsInUse(store) - Len(request.texts) + i>>
            /\ RowOf(i).document = request.texts[i]
            /\ DOMAIN RowOf(i).metadata # {}
            /\ RowOf(i).metadata =
                  IF request.metadatas.given /\ request.metadatas.list # <<>>
                  THEN request.metadatas.list[i]
                  ELSE [source |-> <<"document", i - 1>>]

C11_Witness ==
    /\ Added
    /\ Len(request.texts) = 2
    /\ ~request.metadatas.given
    /\ UuidsInUse(store) = 2

\* C12: add_documents with no texts returns the "no documents" message, makes
\* no call on the index and leaves the collection, its rows and so its count
\* as they were.
C12_NoTextsNoOp ==
    [][(request'.op = "add_documents" /\ request'.texts = <<>>) =>
          /\ ~result'.raised
          /\ result'.msg.kind = "no_documents"
          /\ calls' = <<>>
          /\ store' = store
          /\ IndexCount(store') = IndexCount(store)
          /\ collection' = collection]_vars

C12_Witness ==
    /\ request.op = "add_documents"
    /\ request.texts = <<>>
    /\ request.metadatas.given
    /\ result.msg.kind = "no_documents"
    /\ calls = <<>>
    /\ IndexCount(store) >= 2

\* C13 as stated: get_collection_stats returns the collection name and the
\* current document count in every reachable state.
C13_Original ==
    request.op = "get_collection_stats" =>
        /\ result.stats.kind = "stats"
        /\ result.stats.name = "documents"
        /\ result.stats.count = IndexCount(store)

\* C13, amended: get_collection_stats never raises and never changes the
\* collection; it returns the collection name and the current count (0
\* included) when the count call on the index succeeds, and an error message
\* when that call raises.
C13_StatsOrError ==
    [][request'.op = "get_collection_stats" =>
          /\ ~result'.raised
          /\ ~result'.stats.raised
          /\ store' = store
          /\ collection' = collection
          /\ Len(calls') = 1
          /\ calls'[1].fn = "count"
          /\ IF calls'[1].ok
             THEN /\ result'.stats.kind = "stats"
                  /\ result'.stats.name = "documents"
                  /\ result'.stats.count = IndexCount(store)
             ELSE result'.stats.kind = "error"]_vars

C13_Witness ==
    /\ request.op = "get_collection_stats"
    /\ store = <<>>
    /\ collection.live
    /\ result.stats.kind = "stats"
    /\ result.stats.count = 0

\* C14 as stated: no call of the clear handler on the index is served between
\* two chunk insertions of one bulk load.
C14_Original ==
    request.op = "add_sample_data" =>
        \A a, b, c \in 1..Len(calls) :
            (a < b /\ b < c /\ IsAdd(calls[a]) /\ IsAdd(calls[c])) =>
                calls[b].fn \notin {"delete_collection", "get_or_create_collection"}

\* C15 as stated: similarity returns 0.0 without raising when a vector has
\* zero norm, and similarity(v, v) is 1 for every v that is not the zero
\* vector.
NonZero(v) == \E j \in 1..Len(v) : v[j] # 0

C15_Original ==
    ( /\ pc = "returned"
      /\ request.op = "similarity"
      /\ Len(request.embedding1) = Len(request.embedding2) ) =>
        /\ ~result.raised
        /\ (Norm(request.embedding1) = 0 \/ Norm(request.embedding2) = 0) =>
              result.value = 0
        /\ (request.embedding1 = request.embedding2 /\ NonZero(request.embedding1)) =>
              result.value = One

\* C16: batch_similarity returns one score per candidate, and the score at
\* index i is that of candidate i alone: 0 when the query has zero norm,
\* else the dot product of the candidate divided by its norm (by 1 when
\* that norm is zero) with the query divided by its norm.
ScoreOf(query, candidate) ==
    IF Norm(query) = 0 THEN 0
    ELSE Dot(Scaled(candidate, IF Norm(candidate) = 0 THEN One ELSE Norm(candidate)),
             Scaled(query, Norm(query)))

C16_OneScorePerCandidate ==
    (pc = "returned" /\ request.op = "batch_similarity") =>
        /\ ~result.raised
        /\ Len(result.value) = Len(request.embeddings)
        /\ \A i \in 1..Len(request.embeddings) :
              /\ result.value[i] = ScoreOf(request.query_embedding,
                                           request.embeddings[i])
              /\ (Norm(request.query_embedding) # 0
                  /\ Norm(request.embeddings[i]) = 0) =>
                    result.value[i] = Dot(request.embeddings[i],
                                          Scaled(request.query_embedding,
                                                 Norm(request.query_embedding)))

C16_Witness ==
    /\ pc = "returned"
    /\ request.op = "batch_similarity"
    /\ Norm(request.query_embedding) # 0
    /\ Len(request.embeddings) = 2
    /\ Norm(request.embeddings[1]) = 0
    /\ Norm(request.embeddings[2]) # 0
    /\ result.value[1] = 0
    /\ result.value[2] = One

\* C17: encode returns, for either provider, the vector of each text at the
\* position of that text; for no texts it returns an empty result and makes
\* no call on the provider; when a call on the provider raises, encode
\* raises.
C17_EncodeInOrder ==
    (pc = "returned" /\ request.op = "encode") =>
        /\ request.texts = <<>> =>
              (~result.raised /\ result.value = <<>> /\ calls = <<>>)
        /\ AllOk(calls) =>
              /\ ~result.raised
              /\ Len(result.value) = Len(request.texts)
              /\ \A i \in 1..Len(request.texts) :
                    result.value[i] = Embed(request.texts[i])
        /\ ~AllOk(calls) => result.raised
        /\ request.texts # <<>> => calls # <<>>

C17_Witness ==
    /\ pc = "returned"
    /\ request.op = "encode"
    /\ request.provider = "openai"
    /\ request.texts = <<2, 1>>
    /\ Len(calls) = 3
    /\ result.value = <<Embed(2), Embed(1)>>

\* C18 as stated: every chunk chunk_text returns has at most chunk_size
\* characters, and a text longer than chunk_size gives more than one chunk.
C18_Original ==
    (pc = "returned" /\ request.op = "chunk_text") =>
        /\ \A k \in 1..Len(result.value) :
              Len(result.value[k]) <= request.chunk_size
        /\ Len(request.text) > request.chunk_size => Len(result.value) > 1

\* the ids of the documents of the file, in the order of the load
LoadIds == IdsToAdd(Kept(Get(jsonFile.data, "documents", <<>>)))

\* the places in the log at which a clear dropped the rows of the collection
Cleared(log) ==
    {b \in 1..Len(log) : log[b].fn = "delete_collection" /\ log[b].ok}

LastCleared(log) == CHOOSE b \in Cleared(log) : \A c \in Cleared(log) : c <= b

\* the chunk insertions served before place b of the log
AddsBefore(log, b) == Len(Adds(SubSeq(log, 1, b - 1)))

\* a bulk load has returned, all its chunk insertions succeeded and a clear
\* succeeded between two of them
ClearedBetweenChunks ==
    /\ BulkDone
    /\ ~result.raised
    /\ Adds(calls) # <<>>
    /\ \A a \in 1..Len(calls) : IsAdd(calls[a]) => calls[a].ok
    /\ \E a, b, c \in 1..Len(calls) :
          a < b /\ b < c /\ IsAdd(calls[a]) /\ b \in Cleared(calls)
          /\ IsAdd(calls[c])

\* C19: when clear_collection has run between two chunk insertions of a bulk
\* load whose insertions all succeeded, the collection holds only the
\* documents of the chunks inserted after the (last) clear, while the summary
\* of the load counts the documents of all chunks as added.
C19_InconsistentAfterClear ==
    ClearedBetweenChunks =>
        /\ result.msg.kind = "all"
        /\ result.msg.n = Len(LoadIds)
        /\ result.msg.total = Len(LoadIds)
        /\ Ids(store) =
              {LoadIds[k] : k \in (AddsBefore(calls, LastCleared(calls))
                                      * batch_size + 1)..Len(LoadIds)}
        /\ IndexCount(store) < result.msg.n

C19_Witness ==
    /\ ClearedBetweenChunks
    /\ Len(Adds(calls)) = 2
    /\ IndexCount(store) = 1
    /\ result.msg.n = batch_size + 1

\* the calls of the log made on the embedding model
IsEncode(call) == call.fn = "model.encode"

\* C20 as stated: an add_documents call with texts makes exactly one encode
\* call on the embedding model, for all its texts, and its insertion into the
\* index comes after that call.
C20_Original ==
    (request.op = "add_documents" /\ request.texts # <<>>) =>
        /\ Len(SelectSeq(calls, IsEncode)) = 1
        /\ \A a \in 1..Len(calls) :
              IsAdd(calls[a]) =>
                  \E e \in 1..(a - 1) :
                      IsEncode(calls[e]) /\ calls[e].n = Len(request.texts)

\* C21 as stated: when add_sample_data returns, the count of the collection
\* has grown by the number of documents its summary reports as processed.
C21_Original ==
    (BulkDone /\ ~result.raised) =>
        IndexCount(store) = count_before + result.msg.n

\* C22 as stated: every iteration of the loop of chunk_text moves start
\* forward, so the loop ends.
C22_Original ==
    [][ChunkTextIteration => result'.start > result.start]_vars

\* C23 as stated: after clear_collection has returned, with either message,
\* self.collection is a handle to an existing collection named "documents".
C23_Original ==
    (request.op \in {"clear_collection", "clear_all_documents"}
        /\ ~result.raised) =>
        /\ collection.live
        /\ collection.name = "documents"

====
